---- MODULE Spec2Model ----
(***************************************************************************)
(* Model of tasks.py: the RobotSpareBin order robot.  One run of the task  *)
(* order_robots_from_RobotSpareBin is a sequential program; every call     *)
(* into the browser, the PDF library or the archive library is one step    *)
(* that either returns or raises.  The web site and the file system are    *)
(* the environment.                                                        *)
(***************************************************************************)
EXTENDS Integers, Naturals, Sequences, FiniteSets, TLC

\* ---------------------------------------------------------------- bounds
MaxOrders == 2

\* submit_order: max_retries = 3
max_retries == 3

\* ----------------------------------------------------------- input space
OrderNumbers == {1, 2}

\* A part cell of the CSV is a part number or empty.
PartChoices ==
    { [head |-> "1", body |-> "1", legs |-> "1"],
      [head |-> "",  body |-> "1", legs |-> "1"],
      [head |-> "1", body |-> "",  legs |-> "1"],
      [head |-> "1", body |-> "1", legs |-> ""] }

\* A row of orders.csv, by column: Order number, Head, Body, Legs, Address.
Rows ==
    { [Order_number |-> n, Head |-> p.head, Body |-> p.body, Legs |-> p.legs,
       Address |-> "addr"] : n \in OrderNumbers, p \in PartChoices }

\* class Order, built by get_orders from one row
Order(row) ==
    [order_number |-> row.Order_number, head |-> row.Head, body |-> row.Body,
     legs |-> row.Legs, address |-> row.Address]

RECURSIVE SeqsUpTo(_, _)
SeqsUpTo(S, n) ==
    IF n = 0 THEN { <<>> }
    ELSE LET shorter == SeqsUpTo(S, n - 1)
         IN  shorter \cup { Append(s, x) : s \in { t \in shorter : Len(t) = n - 1 }, x \in S }

\* The tables orders.csv can hold.
Tables == SeqsUpTo(Rows, MaxOrders)

VARIABLES
    csv,            \* the remote orders.csv
    orders,         \* order_robots_from_RobotSpareBin: orders
    pc,             \* the statement the run is at
    i,              \* fill_and_submit_sales_form: index of `order` in orders (0 before the loop)
    success,        \* submit_order: success
    retry_count,    \* submit_order: retry_count
    e,              \* submit_order: the exception caught from the initial attempt
    error,          \* the exception that ended the run
    receiptVisible, \* site: #receipt is visible
    files,          \* the files under output/screenshots and output/receipts
    zip,            \* output/receipts.zip
    dismissed,      \* history: the modal was dismissed since the last page open / return to the form
    steps,          \* history: per row, the loop-body steps completed
    calls,          \* history: per library call, how often it was made for the current row
    sub             \* history: submit_order of the current row

vars == << csv, orders, pc, i, success, retry_count, e, error, receiptVisible,
           files, zip, dismissed, steps, calls, sub >>

\* ------------------------------------------------------------- vocabulary
FillOps == << "select_head", "click_body", "fill_legs", "fill_address" >>

Ops == { "download", "read_table", "goto", "click_ok",
         "select_head", "click_body", "fill_legs", "fill_address",
         "click_order", "wait_receipt", "store_receipt_as_pdf",
         "wait_container", "wait_head", "wait_body", "wait_legs",
         "screenshot", "inner_html", "html_to_pdf", "add_watermark",
         "click_another", "archive" }

SubmitOps == { "click_order", "wait_receipt" }

NoCalls == [op \in Ops |-> 0]
NoSub == [clicked |-> 0, failed |-> 0, first_cause |-> "none"]
NoError == [op |-> "none", cause |-> "none", max_retries |-> 0]
\* A file's content: the row whose capture wrote it (0: no such file) and,
\* for a receipt, the row of the screenshot embedded into it (0: none).
NoFile == [row |-> 0, image |-> 0]

\* output/screenshots/robot-<n>.png and output/receipts/receipt-<n>.pdf
Paths == { << d, n >> : d \in {"screenshots", "receipts"}, n \in OrderNumbers }

\* screenshot_robot: full_path
screenshot_path(order) == << "screenshots", order.order_number >>

\* Mutant of receipt_path: the order number left out of the file name.
receipt_path_fixed(order) == << "receipts", 1 >>

\* store_receipt_as_pdf: receipt_file
receipt_path(order) == << "receipts", order.order_number >>

\* The files that exist in a folder of output/, with their contents.
Folder(fs, d) == { << p, fs[p] >> : p \in { q \in Paths : q[1] = d /\ fs[q] # NoFile } }
NoZip == [written |-> FALSE, files |-> {}]

Bump(c, ops) == [op \in Ops |-> IF op \in ops THEN c[op] + 1 ELSE c[op]]

Min(a, b) == IF a < b THEN a ELSE b

Range(s) == { s[k] : k \in 1..Len(s) }

Prefix(s, n) == [k \in 1..Min(n, Len(s)) |-> s[k]]

\* Mutant of Raise: the loop body catches the exception, goes back to the
\* form and carries on with the next order.
Raise_and_continue(err) ==
    /\ pc' = IF i >= 1 /\ i < Len(orders) THEN "go_back_to_order_form" ELSE "failed"
    /\ error' = err

\* An exception that no caller catches: the task ends.
Raise(err) ==
    /\ pc' = "failed"
    /\ error' = err

Failure(op) == [op |-> op, cause |-> "timeout", max_retries |-> 0]

\* ------------------------------------------------------------------ Init
Init ==
    /\ csv \in Tables
    /\ orders = << >>
    /\ pc = "download_file"
    /\ i = 0
    /\ success = FALSE
    /\ retry_count = 0
    /\ e = "none"
    /\ error = NoError
    /\ receiptVisible = FALSE
    /\ files = [p \in Paths |-> NoFile]
    /\ zip = NoZip
    /\ dismissed = FALSE
    /\ steps = [k \in 1..Len(csv) |-> << >>]
    /\ calls = NoCalls
    /\ sub = NoSub

\* --------------------------------------------------- the task, step by step
\* download_file(config.orders_file_url, config.orders_file_name)
download_file ==
    /\ pc = "download_file"
    /\ calls' = Bump(calls, {"download"})
    /\ \E ok \in BOOLEAN :
         IF ok THEN pc' = "get_orders" /\ UNCHANGED error
               ELSE Raise(Failure("download"))
    /\ UNCHANGED << csv, orders, i, success, retry_count, e, receiptVisible,
                    files, zip, dismissed, steps, sub >>

\* orders = get_orders(config)
get_orders ==
    /\ pc = "get_orders"
    /\ calls' = Bump(calls, {"read_table"})
    /\ \E ok \in BOOLEAN :
         IF ok THEN /\ orders' = [k \in 1..Len(csv) |-> Order(csv[k])]
                    /\ pc' = "open_robot_order_website"
                    /\ UNCHANGED error
               ELSE /\ Raise(Failure("read_table"))
                    /\ UNCHANGED orders
    /\ UNCHANGED << csv, i, success, retry_count, e, receiptVisible,
                    files, zip, dismissed, steps, sub >>

\* open_robot_order_website(config)
open_robot_order_website ==
    /\ pc = "open_robot_order_website"
    /\ calls' = Bump(calls, {"goto"})
    /\ dismissed' = FALSE
    /\ \E ok \in BOOLEAN :
         IF ok THEN pc' = "close_annoying_modal" /\ UNCHANGED error
               ELSE Raise(Failure("goto"))
    /\ UNCHANGED << csv, orders, i, success, retry_count, e, receiptVisible,
                    files, zip, steps, sub >>

\* Mutant of close_annoying_modal: a failed click is tried again.
close_annoying_modal_retry ==
    /\ pc = "close_annoying_modal"
    /\ calls' = Bump(calls, {"click_ok"})
    /\ \E ok \in BOOLEAN :
         IF ok
         THEN /\ dismissed' = TRUE
              /\ steps' = IF i >= 1 THEN [steps EXCEPT ![i] = Append(@, "close_annoying_modal")]
                                    ELSE steps
              /\ IF i + 1 <= Len(orders)
                 THEN i' = i + 1 /\ pc' = "fill_order_form"
                 ELSE i' = i /\ pc' = "archive_receipts"
              /\ UNCHANGED error
         ELSE /\ IF calls["click_ok"] >= 1 THEN Raise(Failure("click_ok"))
                                           ELSE UNCHANGED << pc, error >>
              /\ UNCHANGED << dismissed, steps, i >>
    /\ UNCHANGED << csv, orders, success, retry_count, e, receiptVisible,
                    files, zip, sub >>

\* close_annoying_modal(), called by the task before the loop (i = 0) and at
\* the end of the loop body for orders[i]; then the next order, or the end
\* of fill_and_submit_sales_form.
close_annoying_modal ==
    /\ pc = "close_annoying_modal"
    /\ calls' = Bump(calls, {"click_ok"})
    /\ \E ok \in BOOLEAN :
         IF ok
         THEN /\ dismissed' = TRUE
              /\ steps' = IF i >= 1 THEN [steps EXCEPT ![i] = Append(@, "close_annoying_modal")]
                                    ELSE steps
              /\ IF i + 1 <= Len(orders)
                 THEN i' = i + 1 /\ pc' = "fill_order_form"
                 ELSE i' = i /\ pc' = "archive_receipts"
              /\ UNCHANGED error
         ELSE /\ Raise(Failure("click_ok"))
              /\ UNCHANGED << dismissed, steps, i >>
    /\ UNCHANGED << csv, orders, success, retry_count, e, receiptVisible,
                    files, zip, sub >>

\* fill_order_form(order): four page calls, the first that raises ends it.
fill_order_form ==
    /\ pc = "fill_order_form"
    /\ sub' = NoSub
    /\ \E n \in 0..Len(FillOps) :
         /\ calls' = Bump(NoCalls, Range(Prefix(FillOps, n + 1)))
         /\ IF n = Len(FillOps)
            THEN /\ steps' = [steps EXCEPT ![i] = Append(@, "fill_order_form")]
                 /\ pc' = "submit_order"
                 /\ UNCHANGED error
            ELSE /\ Raise(Failure(FillOps[n + 1]))
                 /\ UNCHANGED steps
    /\ UNCHANGED << csv, orders, i, success, retry_count, e, receiptVisible,
                    files, zip, dismissed >>

\* screenshot_robot(order, config): the preview waits, then the screenshot
screenshot_robot == << "await_robot_preview", "screenshot" >>

\* Mutant of store_receipt_as_pdf: the receipt is rendered before the
\* screenshot is taken.
store_receipt_as_pdf_html_first ==
    << "inner_html", "html_to_pdf" >> \o screenshot_robot \o << "embed_screenshot_to_receipt" >>

\* store_receipt_as_pdf(order, config): the statements in program order
store_receipt_as_pdf ==
    screenshot_robot \o << "inner_html", "html_to_pdf", "embed_screenshot_to_receipt" >>

\* The statement after `step` of store_receipt_as_pdf; after the last one the
\* loop body goes on with go_back_to_order_form.
AfterCapture(step) ==
    LET k == CHOOSE j \in 1..Len(store_receipt_as_pdf) : store_receipt_as_pdf[j] = step
    IN  IF k < Len(store_receipt_as_pdf) THEN store_receipt_as_pdf[k + 1]
                                          ELSE "go_back_to_order_form"

\* submit_order returns normally: the loop body calls store_receipt_as_pdf.
SubmitReturns ==
    /\ steps' = [steps EXCEPT ![i] = Append(@, "submit_order")]
    /\ pc' = store_receipt_as_pdf[1]
    /\ UNCHANGED error

\* submit_order, lines 140-146: the locals, then the initial click_order()
submit_order ==
    /\ pc = "submit_order"
    /\ success' = FALSE
    /\ retry_count' = 0
    /\ calls' = Bump(calls, {"click_order"})
    /\ \E ok \in BOOLEAN :
         IF ok THEN /\ pc' = "wait_for_receipt"
                    /\ e' = "none"
                    /\ sub' = [sub EXCEPT !.clicked = @ + 1]
               ELSE /\ pc' = "retry"
                    /\ e' = "click_order"
                    /\ sub' = [sub EXCEPT !.failed = @ + 1, !.first_cause = "click_order"]
    /\ UNCHANGED << csv, orders, i, error, receiptVisible, files,
                    zip, dismissed, steps >>

\* submit_order, line 147: the initial wait_for_receipt(); it returns when
\* #receipt is visible within the timeout and raises otherwise.
wait_for_receipt ==
    /\ pc = "wait_for_receipt"
    /\ IF receiptVisible
       THEN /\ SubmitReturns
            /\ calls' = Bump(calls, {"wait_receipt", "store_receipt_as_pdf"})
            /\ UNCHANGED << e, sub >>
       ELSE /\ pc' = "retry"
            /\ e' = "wait_receipt"
            /\ calls' = Bump(calls, {"wait_receipt"})
            /\ sub' = [sub EXCEPT !.failed = @ + 1, !.first_cause = "wait_receipt"]
            /\ UNCHANGED << steps, error >>
    /\ UNCHANGED << csv, orders, i, success, retry_count, receiptVisible,
                    files, zip, dismissed >>

\* Mutant of MayRetry: `<` for `<=`, one retry short.
MayRetry_strict(rc) == rc < max_retries

\* submit_order, line 151: if retry_count <= max_retries
MayRetry(rc) == rc <= max_retries

\* Mutant of retry_click_order: a retry after a click that went through only
\* waits again.
retry_click_order_rewait ==
    /\ pc = "retry"
    /\ ~success
    /\ MayRetry(retry_count + 1)
    /\ retry_count' = retry_count + 1
    /\ IF sub.clicked >= 1
       THEN pc' = "retry_wait_for_receipt" /\ UNCHANGED << calls, sub >>
       ELSE /\ calls' = Bump(calls, {"click_order"})
            /\ \E ok \in BOOLEAN :
                 IF ok THEN /\ pc' = "retry_wait_for_receipt"
                            /\ sub' = [sub EXCEPT !.clicked = @ + 1]
                       ELSE /\ pc' = "retry"
                            /\ sub' = [sub EXCEPT !.failed = @ + 1]
    /\ UNCHANGED << csv, orders, i, success, e, error, receiptVisible, files,
                    zip, dismissed, steps >>

\* submit_order, lines 149-154: one more turn of `while not success` with
\* retry_count <= max_retries, up to its click_order()
retry_click_order ==
    /\ pc = "retry"
    /\ ~success
    /\ MayRetry(retry_count + 1)
    /\ retry_count' = retry_count + 1
    /\ calls' = Bump(calls, {"click_order"})
    /\ \E ok \in BOOLEAN :
         IF ok THEN /\ pc' = "retry_wait_for_receipt"
                    /\ sub' = [sub EXCEPT !.clicked = @ + 1]
               ELSE /\ pc' = "retry"
                    /\ sub' = [sub EXCEPT !.failed = @ + 1]
    /\ UNCHANGED << csv, orders, i, success, e, error, receiptVisible, files, zip, dismissed, steps >>

\* Mutant of retry_wait_for_receipt: `success = True` left out.
retry_wait_for_receipt_no_success ==
    /\ pc = "retry_wait_for_receipt"
    /\ pc' = "retry"
    /\ calls' = Bump(calls, {"wait_receipt"})
    /\ sub' = IF receiptVisible THEN sub ELSE [sub EXCEPT !.failed = @ + 1]
    /\ UNCHANGED << csv, orders, i, success, retry_count, e, error, receiptVisible,
                    files, zip, dismissed, steps >>

\* submit_order, lines 155-158: the retry's wait_for_receipt(), then
\* success = True, or `except Exception: pass`
retry_wait_for_receipt ==
    /\ pc = "retry_wait_for_receipt"
    /\ IF receiptVisible
       THEN /\ success' = TRUE
            /\ SubmitReturns
            /\ calls' = Bump(calls, {"wait_receipt", "store_receipt_as_pdf"})
            /\ UNCHANGED sub
       ELSE /\ pc' = "retry"
            /\ calls' = Bump(calls, {"wait_receipt"})
            /\ sub' = [sub EXCEPT !.failed = @ + 1]
            /\ UNCHANGED << success, steps, error >>
    /\ UNCHANGED << csv, orders, i, retry_count, e, receiptVisible,
                    files, zip, dismissed >>

\* submit_order, lines 159-160: retry_count > max_retries, raise
retry_exhausted ==
    /\ pc = "retry"
    /\ ~success
    /\ ~MayRetry(retry_count + 1)
    /\ retry_count' = retry_count + 1
    /\ Raise([op |-> "submit_order", cause |-> e, max_retries |-> max_retries])
    /\ UNCHANGED << csv, orders, i, success, e, receiptVisible, files, zip, dismissed, steps, calls, sub >>

\* The site: after an Order click went through, the receipt may show up, at
\* once or late.
ReceiptAppears ==
    /\ pc \in {"wait_for_receipt", "retry_wait_for_receipt", "retry"}
    /\ sub.clicked >= 1
    /\ ~receiptVisible
    /\ receiptVisible' = TRUE
    /\ UNCHANGED << csv, orders, pc, i, success, retry_count, e, error,
                    files, zip, dismissed, steps, calls, sub >>

\* Mutant of PreviewWaits: the `if` guards left out.
PreviewWaits_all(order) ==
    << "wait_container", "wait_head", "wait_body", "wait_legs" >>

\* await_robot_preview(head, body, legs): the selectors waited for, in order
PreviewWaits(order) ==
    << "wait_container" >>
    \o (IF order.head # "" THEN << "wait_head" >> ELSE << >>)
    \o (IF order.body # "" THEN << "wait_body" >> ELSE << >>)
    \o (IF order.legs # "" THEN << "wait_legs" >> ELSE << >>)

\* await_robot_preview: the waits run one after the other, the first that
\* times out raises.
await_robot_preview ==
    /\ pc = "await_robot_preview"
    /\ LET W == PreviewWaits(orders[i])
       IN  \E n \in 0..Len(W) :
             /\ calls' = Bump(calls, Range(Prefix(W, n + 1)))
             /\ IF n = Len(W)
                THEN pc' = AfterCapture("await_robot_preview") /\ UNCHANGED error
                ELSE Raise(Failure(W[n + 1]))
    /\ UNCHANGED << csv, orders, i, success, retry_count, e, receiptVisible,
                    files, zip, dismissed, steps, sub >>

\* screenshot_robot, line 113: browser.page().screenshot(path=full_path)
screenshot ==
    /\ pc = "screenshot"
    /\ calls' = Bump(calls, {"screenshot"})
    /\ \E ok \in BOOLEAN :
         IF ok THEN /\ files' = [files EXCEPT ![screenshot_path(orders[i])] =
                                                 [row |-> i, image |-> 0]]
                    /\ pc' = AfterCapture("screenshot")
                    /\ UNCHANGED error
               ELSE /\ Raise(Failure("screenshot"))
                    /\ UNCHANGED files
    /\ UNCHANGED << csv, orders, i, success, retry_count, e, receiptVisible,
                    zip, dismissed, steps, sub >>

\* store_receipt_as_pdf, line 76: locator("#receipt").inner_html()
inner_html ==
    /\ pc = "inner_html"
    /\ calls' = Bump(calls, {"inner_html"})
    /\ \E ok \in BOOLEAN :
         IF ok THEN pc' = AfterCapture("inner_html") /\ UNCHANGED error
               ELSE Raise(Failure("inner_html"))
    /\ UNCHANGED << csv, orders, i, success, retry_count, e, receiptVisible,
                    files, zip, dismissed, steps, sub >>

\* store_receipt_as_pdf, lines 77-78: html_to_pdf(receipt_html, receipt_file)
html_to_pdf ==
    /\ pc = "html_to_pdf"
    /\ calls' = Bump(calls, {"html_to_pdf"})
    /\ \E ok \in BOOLEAN :
         IF ok THEN /\ files' = [files EXCEPT ![receipt_path(orders[i])] =
                                                 [row |-> i, image |-> 0]]
                    /\ pc' = AfterCapture("html_to_pdf")
                    /\ UNCHANGED error
               ELSE /\ Raise(Failure("html_to_pdf"))
                    /\ UNCHANGED files
    /\ UNCHANGED << csv, orders, i, success, retry_count, e, receiptVisible,
                    zip, dismissed, steps, sub >>

\* embed_screenshot_to_receipt(screenshot_file, receipt_file): the PDF is
\* rewritten in place with the image on it; the last statement of the capture.
embed_screenshot_to_receipt ==
    /\ pc = "embed_screenshot_to_receipt"
    /\ calls' = Bump(calls, {"add_watermark"})
    /\ \E ok \in BOOLEAN :
         IF ok /\ files[receipt_path(orders[i])] # NoFile
                /\ files[screenshot_path(orders[i])] # NoFile
         THEN /\ files' = [files EXCEPT ![receipt_path(orders[i])].image =
                                           files[screenshot_path(orders[i])].row]
              /\ steps' = [steps EXCEPT ![i] = Append(@, "store_receipt_as_pdf")]
              /\ pc' = AfterCapture("embed_screenshot_to_receipt")
              /\ UNCHANGED error
         ELSE /\ Raise(Failure("add_watermark"))
              /\ UNCHANGED << files, steps >>
    /\ UNCHANGED << csv, orders, i, success, retry_count, e, receiptVisible,
                    zip, dismissed, sub >>

\* Mutant of go_back_to_order_form: the loop body ends here, the modal is
\* left open.
go_back_to_order_form_no_modal ==
    /\ pc = "go_back_to_order_form"
    /\ calls' = Bump(calls, {"click_another"})
    /\ \E ok \in BOOLEAN :
         IF ok THEN /\ receiptVisible' = FALSE
                    /\ dismissed' = FALSE
                    /\ steps' = [steps EXCEPT ![i] = Append(@, "go_back_to_order_form")]
                    /\ IF i + 1 <= Len(orders)
                       THEN i' = i + 1 /\ pc' = "fill_order_form"
                       ELSE i' = i /\ pc' = "archive_receipts"
                    /\ UNCHANGED error
               ELSE /\ Raise(Failure("click_another"))
                    /\ UNCHANGED << receiptVisible, dismissed, steps, i >>
    /\ UNCHANGED << csv, orders, success, retry_count, e, files, zip, sub >>

\* go_back_to_order_form(): click "Order another robot"; the site shows the
\* form again, behind its modal.
go_back_to_order_form ==
    /\ pc = "go_back_to_order_form"
    /\ calls' = Bump(calls, {"click_another"})
    /\ \E ok \in BOOLEAN :
         IF ok THEN /\ receiptVisible' = FALSE
                    /\ dismissed' = FALSE
                    /\ steps' = [steps EXCEPT ![i] = Append(@, "go_back_to_order_form")]
                    /\ pc' = "close_annoying_modal"
                    /\ UNCHANGED error
               ELSE /\ Raise(Failure("click_another"))
                    /\ UNCHANGED << receiptVisible, dismissed, steps >>
    /\ UNCHANGED << csv, orders, i, success, retry_count, e, files, zip, sub >>

\* Mutant of archive_folder: the screenshots folder is archived.
archive_folder_screenshots == "screenshots"

\* archive_receipts: the folder handed to archive_folder_with_zip
archive_folder == "receipts"

\* archive_receipts(config): the last statement of the task
archive_receipts ==
    /\ pc = "archive_receipts"
    /\ calls' = Bump(calls, {"archive"})
    /\ \E ok \in BOOLEAN :
         IF ok THEN /\ zip' = [written |-> TRUE, files |-> Folder(files, archive_folder)]
                    /\ pc' = "done"
                    /\ UNCHANGED error
               ELSE /\ Raise(Failure("archive"))
                    /\ UNCHANGED zip
    /\ UNCHANGED << csv, orders, i, success, retry_count, e, receiptVisible,
                    files, dismissed, steps, sub >>

\* ------------------------------------------------------------------ Next
Next ==
    \/ download_file
    \/ get_orders
    \/ open_robot_order_website
    \/ close_annoying_modal
    \/ fill_order_form
    \/ submit_order
    \/ wait_for_receipt
    \/ retry_click_order
    \/ retry_wait_for_receipt
    \/ retry_exhausted
    \/ ReceiptAppears
    \/ await_robot_preview
    \/ screenshot
    \/ inner_html
    \/ html_to_pdf
    \/ embed_screenshot_to_receipt
    \/ go_back_to_order_form
    \/ archive_receipts

Spec == Init /\ [][Next]_vars

\* ---------------------------------------------------------------- typing
TypeOK ==
    /\ csv \in Tables
    /\ orders \in { << >>, [k \in 1..Len(csv) |-> Order(csv[k])] }
    /\ i \in 0..Len(csv)
    /\ success \in BOOLEAN
    /\ retry_count \in 0..(max_retries + 1)
    /\ e \in {"none"} \cup SubmitOps
    /\ error.op \in Ops \cup {"none", "submit_order"}
    /\ receiptVisible \in BOOLEAN
    /\ dismissed \in BOOLEAN
    /\ zip.written \in BOOLEAN
    /\ \A p \in Paths : files[p].row \in 0..Len(csv)

\* ------------------------------------------------- vocabulary of the claims
\* The loop body of fill_and_submit_sales_form, lines 121-125.
Cycle == << "fill_order_form", "submit_order", "store_receipt_as_pdf",
            "go_back_to_order_form", "close_annoying_modal" >>

IsPrefix(s, t) == Len(s) <= Len(t) /\ \A k \in 1..Len(s) : s[k] = t[k]

\* calls and sub are those of orders[i]: its form has been filled.
InRow == i >= 1 /\ steps[i] # << >>

Did(k, step) == step \in Range(steps[k])

\* The call was made for the current row and returned.
Ok(op) == calls[op] = 1 /\ error.op # op

SubmitPcs == {"submit_order", "wait_for_receipt", "retry", "retry_wait_for_receipt"}

CaptureOps == { "store_receipt_as_pdf", "wait_container", "wait_head", "wait_body",
                "wait_legs", "screenshot", "inner_html", "html_to_pdf", "add_watermark" }

\* A click went through and its receipt wait has not run yet.
Pending == IF pc \in {"wait_for_receipt", "retry_wait_for_receipt"} THEN 1 ELSE 0

\* Nothing of the capture or of the return to the form happened for orders[i].
NoFurtherEffects ==
    /\ \A op \in CaptureOps \cup {"click_another", "click_ok"} : calls[op] = 0
    /\ \A p \in Paths : files[p].row # i
    /\ steps[i] = << "fill_order_form" >>

\* fill_and_submit_sales_form has returned.
LoopFinished ==
    \/ pc \in {"archive_receipts", "done"}
    \/ pc = "failed" /\ error.op = "archive"

OrderNumbersOf(os) == { os[k].order_number : k \in 1..Len(os) }

\* The last row of the table that carries order number n.
LastRow(os, n) ==
    CHOOSE k \in 1..Len(os) :
        /\ os[k].order_number = n
        /\ \A j \in (k + 1)..Len(os) : os[j].order_number # n

\* ------------------------------------------------------------------ claims
\* C1: submit_order returns normally exactly when one of its first 4 attempts
\* (K <= 3 failures, then a success) succeeds, and then store_receipt_as_pdf
\* runs exactly once for the order; after more than 3 failed attempts in a
\* row it raises, and nothing of the capture, no go-back click and no modal
\* dismissal happens for that order.
C1_SubmitRetry ==
    InRow =>
      /\ Did(i, "submit_order") <=>
            calls["click_order"] - sub.failed - Pending = 1
      /\ Did(i, "submit_order") =>
            /\ sub.failed <= max_retries
            /\ calls["store_receipt_as_pdf"] = 1
            /\ error.op # "submit_order"
      /\ error.op = "submit_order" => sub.failed > max_retries
      /\ sub.failed > max_retries =>
            /\ pc \in {"retry", "failed"}
            /\ pc = "retry" => ENABLED retry_exhausted /\ ~ENABLED retry_click_order
            /\ pc = "failed" => error.op = "submit_order"
            /\ NoFurtherEffects

\* C1 witness: three failed attempts, the fourth succeeded, the capture ran.
C1_Witness ==
    /\ InRow
    /\ sub.failed = 3
    /\ Did(i, "store_receipt_as_pdf")
    /\ calls["store_receipt_as_pdf"] = 1

\* C7: submit_order ends after at most 1 + 3 click-and-wait attempts: it
\* returns right after the first attempt whose wait succeeds (no click after
\* it, no retry when the initial attempt succeeds) and raises only after
\* exactly 4 failed attempts, with the initial attempt's cause and the limit 3.
C7_SubmitTerminates ==
    /\ pc \in SubmitPcs =>
          ENABLED (submit_order \/ wait_for_receipt \/ retry_click_order
                   \/ retry_wait_for_receipt \/ retry_exhausted)
    /\ InRow =>
          /\ calls["click_order"] <= 1 + max_retries
          /\ calls["wait_receipt"] <= calls["click_order"]
          /\ Did(i, "submit_order") =>
                /\ calls["click_order"] = sub.failed + 1
                /\ pc \notin SubmitPcs
                /\ sub.failed = 0 => retry_count = 0 /\ calls["click_order"] = 1
          /\ error.op = "submit_order" =>
                /\ sub.failed = 1 + max_retries
                /\ calls["click_order"] = 1 + max_retries
                /\ error.cause = sub.first_cause
                /\ error.cause \in SubmitOps
                /\ error.max_retries = 3

\* C7 witness: the initial attempt failed at its receipt wait, the three
\* retries at their click; the error names the receipt wait.
C7_Witness ==
    /\ pc = "failed"
    /\ error = [op |-> "submit_order", cause |-> "wait_receipt", max_retries |-> 3]
    /\ sub.clicked = 1
    /\ sub.failed = 4

\* C9: a receipt wait runs only right after a successful Order click of the
\* same attempt and every retry starts with a new click, so up to 4 clicks
\* can go through for one order while at most one receipt is captured; an
\* attempt whose click fails is a failed attempt, receipt visible or not.
C9_ClickBeforeWait ==
    InRow /\ pc # "submit_order" =>
      /\ calls["wait_receipt"] + Pending = sub.clicked
      /\ calls["click_order"] = 1 + Min(retry_count, max_retries)
      /\ sub.clicked <= 1 + max_retries
      /\ calls["store_receipt_as_pdf"] <= 1
      /\ sub.failed = (calls["click_order"] - sub.clicked)
                      + (calls["wait_receipt"] - calls["store_receipt_as_pdf"])
      /\ calls["store_receipt_as_pdf"] = 1 <=> Did(i, "submit_order")

\* C9 witness: four Order clicks went through, one receipt was captured.
C9_Witness ==
    /\ InRow
    /\ sub.clicked = 4
    /\ calls["store_receipt_as_pdf"] = 1
    /\ Did(i, "store_receipt_as_pdf")

\* C2 as stated: when fill_and_submit_sales_form has returned for a table of
\* N rows, the receipts folder holds exactly N PDFs and the screenshots folder
\* exactly N PNGs, one per row.
C2_OneFilePerRow ==
    LoopFinished =>
      /\ Cardinality(Folder(files, "receipts")) = Len(orders)
      /\ Cardinality(Folder(files, "screenshots")) = Len(orders)

\* C2 amended: when fill_and_submit_sales_form has returned, each folder
\* holds exactly one file per distinct order number of the table, written for
\* the last row with that number, the receipt carrying that row's screenshot;
\* that is N files each exactly when the N order numbers are pairwise distinct.
C2_OneFilePerOrderNumber ==
    LoopFinished =>
      LET nums == OrderNumbersOf(orders)
      IN  /\ \A n \in OrderNumbers :
                IF n \in nums
                THEN /\ files[<< "receipts", n >>] =
                            [row |-> LastRow(orders, n), image |-> LastRow(orders, n)]
                     /\ files[<< "screenshots", n >>] =
                            [row |-> LastRow(orders, n), image |-> 0]
                ELSE /\ files[<< "receipts", n >>] = NoFile
                     /\ files[<< "screenshots", n >>] = NoFile
          /\ Cardinality(Folder(files, "receipts")) = Cardinality(nums)
          /\ Cardinality(Folder(files, "screenshots")) = Cardinality(nums)
          /\ Cardinality(nums) = Len(orders) <=>
                Cardinality(Folder(files, "receipts")) = Len(orders)

\* C2 witness: two rows with the same order number were processed to the end.
C2_Witness ==
    /\ LoopFinished
    /\ Len(orders) = 2
    /\ orders[1].order_number = orders[2].order_number
    /\ Cardinality(Folder(files, "receipts")) = 1

\* C3: the orders are processed one after the other, and an exception that
\* leaves a step of orders[i] ends the run there: nothing is enabled any
\* more, so no later order is filled, clicked, shot or rendered, and the
\* files of the orders captured before stay on disk as they are.
C3_FailureAborts ==
    /\ error # NoError <=> pc = "failed"
    /\ pc = "failed" => ~ENABLED Next
    /\ \A k \in 1..Len(csv) :
          /\ k < i => steps[k] = Cycle
          /\ k > i => /\ steps[k] = << >>
                      /\ \A p \in Paths : files[p].row # k
          /\ (k <= i /\ Did(k, "store_receipt_as_pdf")) =>
                LET r == files[receipt_path(orders[k])]
                    sh == files[screenshot_path(orders[k])]
                IN  /\ r.row \in k..i /\ sh.row \in k..i
                    /\ orders[r.row].order_number = orders[k].order_number
                    /\ orders[sh.row].order_number = orders[k].order_number
                    /\ (\A j \in (k + 1)..i : orders[j].order_number # orders[k].order_number)
                          => r = [row |-> k, image |-> k] /\ sh = [row |-> k, image |-> 0]

\* C3 witness: the second order failed after the first was captured; the
\* first order's receipt and screenshot are on disk.
C3_Witness ==
    /\ pc = "failed"
    /\ i = 2
    /\ orders[1].order_number # orders[2].order_number
    /\ files[receipt_path(orders[1])] = [row |-> 1, image |-> 1]
    /\ files[screenshot_path(orders[1])] = [row |-> 1, image |-> 0]

C5_AllFourWaits ==
    (InRow /\ files[screenshot_path(orders[i])].row = i) =>
      /\ Ok("wait_container")
      /\ Ok("wait_head")
      /\ Ok("wait_body")
      /\ Ok("wait_legs")

\* C5 amended: a screenshot is taken only after the container wait and the
\* image wait of every non-empty part of the order (head, body, legs, in that
\* order) have succeeded; an empty part is not waited for; when a wait times
\* out the run fails at that wait, no later wait runs and no screenshot is
\* written for the order.
C5_PreviewWaits ==
    InRow =>
      LET o == orders[i]
          needs == [w \in {"wait_head", "wait_body", "wait_legs"} |->
                       IF w = "wait_head" THEN o.head # ""
                       ELSE IF w = "wait_body" THEN o.body # "" ELSE o.legs # ""]
          order == << "wait_container", "wait_head", "wait_body", "wait_legs" >>
          needed(k) == k = 1 \/ needs[order[k]]
      IN  /\ \A k \in 1..4 :
                /\ calls[order[k]] <= 1
                /\ ~needed(k) => calls[order[k]] = 0
                /\ calls[order[k]] = 1 =>
                      \A j \in 1..(k - 1) : needed(j) => Ok(order[j])
                /\ (pc = "failed" /\ error.op = order[k]) =>
                      /\ calls[order[k]] = 1
                      /\ \A j \in (k + 1)..4 : calls[order[j]] = 0
                      /\ calls["screenshot"] = 0
                      /\ files[screenshot_path(o)].row # i
          /\ calls["screenshot"] >= 1 => \A k \in 1..4 : needed(k) => Ok(order[k])
          /\ files[screenshot_path(o)].row = i => Ok("screenshot")

\* C5 witness: an order without a head: its screenshot is written after the
\* container, body and legs waits alone.
C5_Witness ==
    /\ InRow
    /\ orders[i].head = ""
    /\ files[screenshot_path(orders[i])].row = i
    /\ calls["wait_container"] = 1 /\ calls["wait_body"] = 1 /\ calls["wait_legs"] = 1
    /\ calls["wait_head"] = 0

\* C6: only the Order click and the receipt wait are ever repeated; every
\* other call is made once each time it is reached, and when it raises the
\* run fails there and then.
C6_OnlySubmitRetried ==
    /\ \A op \in Ops \ SubmitOps : calls[op] <= 1
    /\ error # NoError <=> pc = "failed"
    /\ error.op \in Ops => calls[error.op] = 1
    /\ error.op \notin SubmitOps
    /\ error.op = "submit_order" => calls["click_order"] > 1

\* C6 witness: the modal dismissal after an order whose submit needed two
\* retries failed at its single try.
C6_Witness ==
    /\ pc = "failed"
    /\ error.op = "click_ok"
    /\ i >= 1
    /\ calls["click_ok"] = 1
    /\ calls["click_order"] = 3

\* C8: every order runs fill, submit, capture, go back, dismiss modal in
\* this order, the orders in the order of the CSV rows, and a form is filled
\* only when the modal was dismissed since the page was opened or returned to.
C8_Cycle ==
    /\ orders # << >> => \A k \in 1..Len(csv) : orders[k] = Order(csv[k])
    /\ \A k \in 1..Len(csv) :
          /\ IsPrefix(steps[k], Cycle)
          /\ (k > 1 /\ steps[k] # << >>) => steps[k - 1] = Cycle
          /\ k > i => steps[k] = << >>
    /\ pc = "fill_order_form" => dismissed /\ i >= 1 /\ steps[i] = << >>
    /\ pc \in SubmitPcs => steps[i] = Prefix(Cycle, 1)
    /\ pc \in Range(store_receipt_as_pdf) => steps[i] = Prefix(Cycle, 2)
    /\ pc = "go_back_to_order_form" => steps[i] = Prefix(Cycle, 3)
    /\ (pc = "close_annoying_modal" /\ i >= 1) => steps[i] = Prefix(Cycle, 4) /\ ~dismissed
    /\ (pc = "fill_order_form" /\ i > 1) => steps[i - 1] = Cycle

\* C8 witness: the form is about to be filled for the second order, after the
\* first went through the whole cycle.
C8_Witness ==
    /\ pc = "fill_order_form"
    /\ i = 2
    /\ steps[1] = Cycle
    /\ dismissed

====
